---- MODULE Spec2Model ----
(***************************************************************************)
(* The order ledger of The_Villain: src/utils/blockchain.py                *)
(* (VillainBlockchain) over the blockchain_records table of                *)
(* src/utils/database.py.                                                  *)
(*                                                                         *)
(* A digest is a sequence of HashLen digits in 0..HashBase-1 (the hex      *)
(* string of hashlib.sha256(...).hexdigest(), scaled down).  A timestamp   *)
(* string is the sequence of its printed parts: <<sec>> or <<sec, usec>>.  *)
(* A JSON text is the sequence of the values it prints.                    *)
(***************************************************************************)
EXTENDS Integers, Sequences, FiniteSets, TLC

\* ---------------------------------------------------------------- bounds
HashBase == 4       \* digits of the digest alphabet
HashLen == 4        \* digits of a digest
TicksPerSec == 2    \* clock ticks to the second (the sub-second resolution)
MaxTick == 2        \* the clock runs 0..MaxTick
MaxOrder == 2       \* order ids 1..MaxOrder
MaxAmount == 2      \* total_amount values 1..MaxAmount
MaxCalls == 2       \* add_order_to_blockchain calls per behaviour
MaxTamper == 1      \* direct edits of stored rows per behaviour
MaxTz == 1          \* local time is UTC + 0..MaxTz seconds

\* ------------------------------------------------------ program constants
Difficulty == 2     \* mine_block(self, block, difficulty=2)

Procs == {"t1", "t2"}               \* request threads of the web server
Shared == "order_bp"                \* the module-level instance of order_routes
ConnOutcomes == {"ok", "none", "raise"}
NoBlock == [kind |-> "None"]
NoVerify == [kind |-> "none", valid |-> FALSE, message |-> <<>>, report |-> <<>>]

VARIABLES
    rows,       \* blockchain_records, in id order
    written,    \* the rows as store_block_in_db inserted them (history)
    chain,      \* self.chain of every controller instance
    pc,         \* position of each thread inside add_order_to_blockchain
    self_,      \* the controller instance each thread is calling
    new_block,  \* the local new_block of each thread
    log,        \* completed add_order_to_blockchain calls (history)
    now,        \* the clock, in ticks
    tz,         \* offset of local time from UTC, in seconds
    verifyOut,  \* what the verify_blockchain_integrity call of this step came to
    tampers,    \* number of direct edits made so far
    seen,       \* the results of verify calls made in a row: one held, or two
    block_dict, \* a block dict as a caller built it, keys in insertion order
    digests,    \* the digests calculate_hash returned for block_dict
    block_copy_, \* the local block_copy of each thread inside mine_block
    orders,     \* the committed status of every row of the orders table
    wlock,      \* the thread whose route connection has a write open, or "free"
    route,      \* position of each thread inside complete_order
    responses,  \* what complete_order answered, in order (history)
    contract    \* an order handed to execute_order_contract and what came of it

vars == <<rows, written, chain, pc, self_, new_block, log, now, tz,
          verifyOut, tampers, seen, block_dict, digests, block_copy_,
          orders, wlock, route, responses, contract>>

\* what lies outside the ledger's coarse steps
Apart == UNCHANGED <<block_copy_, orders, wlock, route, responses, contract>>

\* execute_order_contract has not been called
NoContract == [order_data |-> <<>>, eth |-> "unavailable", out |-> [kind |-> "none"]]

\* a thread that is not inside complete_order
NoRequest == [at |-> "idle", order_id |-> 0]

\* what every step of the ledger does to the last three: the pair of
\* results lasts one step, the dict under calculate_hash is not touched
Aside == seen' = <<>> /\ UNCHANGED <<block_dict, digests>> /\ Apart

\* ------------------------------------------------------------- digests
RECURSIVE Pow(_, _)
Pow(b, e) == IF e = 0 THEN 1 ELSE b * Pow(b, e - 1)

HashSpace == Pow(HashBase, HashLen)

\* '0' * n
Zeros(n) == [i \in 1..n |-> 0]

\* '0' * 64
ZeroHash == Zeros(HashLen)

\* hexdigest(): the digits of n, most significant first
HexDigest(n) == [i \in 1..HashLen |-> (n \div Pow(HashBase, HashLen - i)) % HashBase]

RECURSIVE SeqNum(_)
SeqNum(s) ==
    IF s = <<>> THEN 0
    ELSE SeqNum(SubSeq(s, 1, Len(s) - 1)) * HashBase + s[Len(s)]

\* ---------------------------------------------------------- timestamps
\* str(datetime.now()): local time, microseconds printed only when non-zero
PyNowStr(t, off) ==
    IF t % TicksPerSec = 0 THEN <<(t \div TicksPerSec) + off>>
    ELSE <<(t \div TicksPerSec) + off, t % TicksPerSec>>

\* DEFAULT CURRENT_TIMESTAMP: UTC, whole seconds
SqlCurrentTimestamp(t) == <<t \div TicksPerSec>>

TsCode(ts) == ts[1] * TicksPerSec + (IF Len(ts) > 1 THEN ts[2] ELSE 0)

\* --------------------------------------------------------------- JSON
\* An order payload; opaque = it holds a value json cannot encode.
Payloads == [order_id : 1..MaxOrder, total_amount : 1..MaxAmount, opaque : BOOLEAN]

\* blockchain_data as complete_order and quick_order build it from the
\* order's row: the order fixes its total
OrderData == {d \in Payloads : d.total_amount = 1}

\* json.dumps taking whatever it is given
Serializable_any(data) == TRUE

\* json.dumps(...) does not raise TypeError on this payload
Serializable(data) == ~data.opaque

\* json.dumps(block['data'])
JsonDumps(data) == <<data.order_id, data.total_amount>>

\* json.loads succeeds on this text
JsonParses(text) == Len(text) = 2

\* json.loads(block['block_data'])
JsonLoads(text) == [order_id |-> text[1], total_amount |-> text[2], opaque |-> FALSE]

DataCode(data) == data.order_id * (MaxAmount + 1) + data.total_amount

\* --------------------------------------------------------- calculate_hash
\* The content of a block that json.dumps(block, sort_keys=True) prints.
Content(index, timestamp, data, previous_hash, nonce) ==
    [index |-> index, timestamp |-> timestamp, data |-> data,
     previous_hash |-> previous_hash, nonce |-> nonce]

\* One more on the nonce moves the digest by just under the width of the
\* zero-prefixed range, so a search over nonces ends within about
\* HashBase^Difficulty attempts, as it does on average with SHA-256.
NonceStride == Pow(HashBase, HashLen - Difficulty) - 1

Mix(block) ==
    224 + 29 * block.index + 11 * TsCode(block.timestamp) + 37 * DataCode(block.data)
      + 3 * SeqNum(block.previous_hash) + NonceStride * block.nonce

\* sha256(json.dumps(block, sort_keys=True, indent=2)).hexdigest(), for a
\* block whose data json can encode.  No content hashes to '0' * 64.
calculate_hash(block) == HexDigest(1 + (Mix(block) % (HashSpace - 1)))

\* hash_result[:difficulty] == prefix
HasPrefix(hash, difficulty) ==
    SubSeq(hash, 1, difficulty) = Zeros(difficulty)

\* -------------------------------------------------------------- mine_block
RECURSIVE MineLoop(_, _)
MineLoop(block_copy, difficulty) ==
    LET hash_result == calculate_hash(block_copy)
    IN  IF HasPrefix(hash_result, difficulty) THEN hash_result
        ELSE MineLoop([block_copy EXCEPT !.nonce = @ + 1], difficulty)

\* mine_block without its search: the hash at nonce 0, whatever its prefix
mine_block_unsearched(block, difficulty) == calculate_hash(block)

\* mine_block works on block.copy() and returns the hash alone
mine_block(block, difficulty) == MineLoop(block, difficulty)

RECURSIVE WinningNonce(_, _)
\* the value of block_copy['nonce'] when mine_block returns
WinningNonce(block_copy, difficulty) ==
    IF HasPrefix(calculate_hash(block_copy), difficulty) THEN block_copy.nonce
    ELSE WinningNonce([block_copy EXCEPT !.nonce = @ + 1], difficulty)

\* ---------------------------------------------------- create_genesis_block
GenesisData == [order_id |-> 0, total_amount |-> 0, opaque |-> FALSE]

WithHash(block, hash) ==
    [kind |-> "block", index |-> block.index, timestamp |-> block.timestamp,
     data |-> block.data, previous_hash |-> block.previous_hash,
     nonce |-> block.nonce, hash |-> hash]

\* the five hashed fields of a block that carries its hash
Hashed(b) == Content(b.index, b.timestamp, b.data, b.previous_hash, b.nonce)

\* a genesis block numbered like the first stored block and left unhashed
create_genesis_block_numbered(t, off) ==
    WithHash(Content(1, PyNowStr(t, off), GenesisData, ZeroHash, 0), ZeroHash)

create_genesis_block(t, off) ==
    LET genesis_block == Content(0, PyNowStr(t, off), GenesisData, ZeroHash, 0)
    IN  WithHash(genesis_block, calculate_hash(genesis_block))

\* -------------------------------------------------------- get_latest_block
\* conn falsy, or no row: None
LatestIsNone(c) == c # "ok" \/ rows = <<>>

\* SELECT * FROM blockchain_records ORDER BY id DESC LIMIT 1
get_latest_block == rows[Len(rows)]

\* ------------------------------------------------------ store_block_in_db
\* The row INSERT builds: id from AUTOINCREMENT, timestamp from the column
\* default; nonce, index and the block's own timestamp are not columns.
store_block_in_db(block, t) ==
    [id |-> Len(rows) + 1,
     order_id |-> block.data.order_id,
     previous_hash |-> block.previous_hash,
     current_hash |-> block.hash,
     block_data |-> JsonDumps(block.data),
     timestamp |-> SqlCurrentTimestamp(t)]

\* INSERT OR REPLACE keyed by the order: the row of an order already
\* recorded is overwritten
InsertRow_replacing(table, row) ==
    IF \E k \in 1..Len(table) : table[k].order_id = row.order_id
    THEN [table EXCEPT ![CHOOSE k \in 1..Len(table) : table[k].order_id = row.order_id] = row]
    ELSE Append(table, row)

\* INSERT INTO blockchain_records (...) VALUES (...) of lines 91-100: one
\* new row after the last
InsertRow(table, row) == Append(table, row)

\* ------------------------------------------------ add_order_to_blockchain
InFlight == {p \in Procs : pc[p] # "idle"}

Started == Len(log) + Cardinality(InFlight)

\* a completed call: its thread, its argument, what it returned and the id
\* of the row it inserted (0: none)
Returned(p, order_data, ret, row) ==
    [thread |-> p, order_data |-> order_data, ret |-> ret, row |-> row]

\* new_block = {...} of lines 47-57
NewBlock(order_data, c) ==
    Content(IF LatestIsNone(c) THEN 1 ELSE get_latest_block.id + 1,
            PyNowStr(now, tz),
            order_data,
            IF LatestIsNone(c) THEN ZeroHash ELSE get_latest_block.current_hash,
            0)

\* Lines 45-60: the instance is constructed (a fresh one by quick_order, the
\* module-level one otherwise), the tip is read, the block built and mined.
AddOrderRead(p, inst, order_data, c) ==
    /\ pc[p] = "idle"
    /\ Started < MaxCalls
    /\ self_' = [self_ EXCEPT ![p] = inst]
    /\ chain' = IF inst = Shared THEN chain
                ELSE [chain EXCEPT ![inst] = <<create_genesis_block(now, tz)>>]
    /\ IF c = "raise" \/ ~Serializable(order_data)
       THEN /\ log' = Append(log, Returned(p, order_data, NoBlock, 0))
            /\ UNCHANGED <<pc, new_block>>
       ELSE LET block == NewBlock(order_data, c)
            IN  /\ new_block' = [new_block EXCEPT
                        ![p] = WithHash(block, mine_block(block, Difficulty))]
                /\ pc' = [pc EXCEPT ![p] = "store"]
                /\ UNCHANGED log
    /\ verifyOut' = NoVerify
    /\ UNCHANGED <<rows, written, now, tz, tampers>>
    /\ Aside

\* Lines 62-72: store_block_in_db, self.chain.append, return.
AddOrderStore(p, c) ==
    /\ pc[p] = "store"
    /\ pc' = [pc EXCEPT ![p] = "idle"]
    /\ new_block' = [new_block EXCEPT ![p] = NoBlock]
    /\ IF c = "ok"
       THEN LET row == store_block_in_db(new_block[p], now)
            IN  /\ rows' = InsertRow(rows, row)
                /\ written' = Append(written, row)
                /\ log' = Append(log, Returned(p, new_block[p].data, new_block[p], row.id))
       ELSE /\ UNCHANGED <<rows, written>>
            /\ log' = Append(log, Returned(p, new_block[p].data,
                    IF c = "none" THEN new_block[p] ELSE NoBlock, 0))
    /\ chain' = IF c = "raise" THEN chain
                ELSE [chain EXCEPT ![self_[p]] = Append(@, new_block[p])]
    /\ verifyOut' = NoVerify
    /\ UNCHANGED <<self_, now, tz, tampers>>
    /\ Aside

\* ------------------------------------------------------------- the clock
Tick ==
    /\ now < MaxTick
    /\ now' = now + 1
    /\ verifyOut' = NoVerify
    /\ UNCHANGED <<rows, written, chain, pc, self_, new_block, log, tz, tampers>>
    /\ Aside

\* ------------------------------------------- verify_blockchain_integrity
\* the loop without line 162: previous_hash stays at the genesis digest
ExpectedPrevious_stale(blocks, k) == ZeroHash

\* the loop carrying forward the hash it recomputed for the row before, not
\* the one that row stores
ExpectedPrevious_recomputed(blocks, k) ==
    IF k = 1 THEN ZeroHash
    ELSE IF ~JsonParses(blocks[k - 1].block_data) THEN blocks[k - 1].current_hash
    ELSE calculate_hash(Content(blocks[k - 1].id, blocks[k - 1].timestamp,
                                JsonLoads(blocks[k - 1].block_data),
                                blocks[k - 1].previous_hash, 0))

\* previous_hash as the loop holds it when it reaches the k-th row
ExpectedPrevious(blocks, k) ==
    IF k = 1 THEN ZeroHash ELSE blocks[k - 1].current_hash

\* test_block stamped by the clock of the verifying call, not by the row
TestBlock_clock(block) ==
    Content(block.id, SqlCurrentTimestamp(now), JsonLoads(block.block_data),
            block.previous_hash, 0)

\* test_block of lines 146-152
TestBlock(block) ==
    Content(block.id, block.timestamp, JsonLoads(block.block_data),
            block.previous_hash, 0)

\* the issues lines 131-159 append for the k-th row, in order
Issues(blocks, k) ==
    LET block == blocks[k]
    IN  (IF block.previous_hash # ExpectedPrevious(blocks, k)
         THEN <<"Previous hash mismatch">> ELSE <<>>)
        \o (IF ~JsonParses(block.block_data)
            THEN <<"Block data parsing error">>
            ELSE IF calculate_hash(TestBlock(block)) # block.current_hash
                 THEN <<"Hash mismatch">> ELSE <<>>)

\* block_status of lines 124-161
BlockStatus(blocks, k) ==
    [block_id |-> blocks[k].id,
     order_id |-> blocks[k].order_id,
     status |-> IF Issues(blocks, k) = <<>> THEN "VALID" ELSE "TAMPERED",
     issues |-> Issues(blocks, k)]

\* a scan that also reads the row an append in flight has not committed
integrity_report_dirty(blocks) ==
    LET pending == {p \in Procs : pc[p] = "store"}
        dirty == IF pending = {} THEN blocks
                 ELSE Append(blocks,
                        store_block_in_db(new_block[CHOOSE p \in pending : TRUE], now))
    IN  [k \in 1..Len(dirty) |-> BlockStatus(dirty, k)]

\* a scan that stops at the first row whose block_data does not parse
integrity_report_aborting(blocks) ==
    LET bad == {k \in 1..Len(blocks) : ~JsonParses(blocks[k].block_data)}
        last == IF bad = {} THEN Len(blocks)
                ELSE CHOOSE k \in bad : \A j \in bad : k <= j
    IN  [k \in 1..last |-> BlockStatus(blocks, k)]

integrity_report(blocks) == [k \in 1..Len(blocks) |-> BlockStatus(blocks, k)]

\* line 165 counting the issues rather than the blocks
tampered_blocks_per_issue(report) ==
    {ki \in (1..Len(report)) \X (1..2) : ki[2] <= Len(report[ki[1]].issues)}

\* line 165 counting the genesis block, which has no row, as tampered
tampered_blocks_and_genesis(report) ==
    {0} \cup {k \in 1..Len(report) : report[k].status = "TAMPERED"}

tampered_blocks(report) == {k \in 1..Len(report) : report[k].status = "TAMPERED"}

\* what a call of verify_blockchain_integrity comes to, by what the
\* connection does: kind "returned" with the pair it returns, or "raised"
VerifyOutcome(c) ==
    IF c = "none"
    THEN [kind |-> "returned", valid |-> FALSE,
          message |-> <<"Database connection failed">>,
          report |-> <<>>]
    ELSE IF c = "raise"
    THEN [kind |-> "raised", valid |-> FALSE, message |-> <<>>, report |-> <<>>]
    ELSE LET report == integrity_report(rows)
             n == Cardinality(tampered_blocks(report))
         IN  [kind |-> "scanned", valid |-> n = 0,
              message |-> IF n = 0 THEN <<"Blockchain integrity verified successfully.">>
                          ELSE <<"Blockchain integrity compromised.", n>>,
              report |-> report]

\* the value a returning call hands to its caller: the pair of lines 112,
\* 168 and 170, named here by position
VerifyReturn(out) == [valid |-> out.valid, message |-> out.message]

verify_blockchain_integrity(c) ==
    /\ verifyOut' = VerifyOutcome(c)
    /\ UNCHANGED <<rows, written, chain, pc, self_, new_block, log, now, tz, tampers>>
    /\ Aside

\* a caller holds the result of a verify call: the call of this step, or
\* the one it kept while the clock ran
Holding == verifyOut.kind # "none" \/ Len(seen) = 1

Held == IF verifyOut.kind # "none" THEN verifyOut ELSE seen[1]

\* the clock runs between two calls of the same caller
TickBetween ==
    /\ Holding
    /\ now < MaxTick
    /\ now' = now + 1
    /\ seen' = <<Held>>
    /\ verifyOut' = NoVerify
    /\ UNCHANGED <<rows, written, chain, pc, self_, new_block, log, tz, tampers,
                   block_dict, digests>>
    /\ Apart

\* A second call of verify_blockchain_integrity by a caller holding the
\* result of the first: nothing was written in between.
verify_again(c) ==
    /\ Holding
    /\ verifyOut' = VerifyOutcome(c)
    /\ seen' = <<Held, VerifyOutcome(c)>>
    /\ UNCHANGED <<rows, written, chain, pc, self_, new_block, log, now, tz, tampers,
                   block_dict, digests>>
    /\ Apart

\* ------------------------------------ direct edits of blockchain_records
Edit(k, row) ==
    /\ tampers < MaxTamper
    /\ tampers' = tampers + 1
    /\ row # rows[k]
    /\ rows' = [rows EXCEPT ![k] = row]
    /\ verifyOut' = NoVerify
    /\ UNCHANGED <<written, chain, pc, self_, new_block, log, now, tz>>
    /\ Aside

\* texts an editor may leave in block_data of the k-th row: the order with
\* another total, or no JSON
EditTexts(k) == {<<rows[k].order_id, a>> : a \in 1..MaxAmount} \cup {<<>>}

\* UPDATE blockchain_records SET block_data = ...
TamperData(k, text) == Edit(k, [rows[k] EXCEPT !.block_data = text])

\* UPDATE blockchain_records SET timestamp = ...
TamperTimestamp(k, t) ==
    Edit(k, [rows[k] EXCEPT !.timestamp = SqlCurrentTimestamp(t)])

\* digests an editor may leave in previous_hash
EditHashes ==
    {ZeroHash, HexDigest(HashSpace - 1)} \cup {rows[j].current_hash : j \in 1..Len(rows)}

\* UPDATE blockchain_records SET previous_hash = ...
TamperPrevious(k, h) == Edit(k, [rows[k] EXCEPT !.previous_hash = h])

\* ------------------------------------------------------- specifications
Instances == {Shared} \cup Procs

Init ==
    /\ rows = <<>>
    /\ written = <<>>
    /\ tz \in 0..MaxTz
    /\ now = 0
    /\ chain = [i \in Instances |->
                    IF i = Shared THEN <<create_genesis_block(0, tz)>> ELSE <<>>]
    /\ pc = [p \in Procs |-> "idle"]
    /\ self_ = [p \in Procs |-> Shared]
    /\ new_block = [p \in Procs |-> NoBlock]
    /\ log = <<>>
    /\ verifyOut = NoVerify
    /\ tampers = 0
    /\ seen = <<>>
    /\ block_dict = <<>>
    /\ digests = <<>>
    /\ block_copy_ = [p \in Procs |-> NoBlock]
    /\ orders = [o \in 1..MaxOrder |-> "pending"]
    /\ wlock = "free"
    /\ route = [p \in Procs |-> NoRequest]
    /\ responses = <<>>
    /\ contract = NoContract

Read(conns) ==
    \E p \in Procs, inst \in Instances, order_data \in OrderData, c \in conns :
        /\ inst \in {Shared, p}
        /\ AddOrderRead(p, inst, order_data, c)

Store(conns) == \E p \in Procs, c \in conns : AddOrderStore(p, c)

Verify(conns) == \E c \in conns : verify_blockchain_integrity(c)

Tamper ==
    \E k \in 1..Len(rows) :
        \/ \E text \in EditTexts(k) : TamperData(k, text)
        \/ \E t \in 0..MaxTick : TamperTimestamp(k, t)
        \/ \E h \in EditHashes : TamperPrevious(k, h)

\* Every thread, every connection outcome, edits of the stored rows.
Next ==
    \/ Read(ConnOutcomes)
    \/ Store(ConnOutcomes)
    \/ Verify(ConnOutcomes)
    \/ Tamper
    \/ Tick

Spec == Init /\ [][Next]_vars

\* Calls of add_order_to_blockchain that do not overlap, rows never edited.
SeqNext ==
    \/ InFlight = {} /\ Read(ConnOutcomes)
    \/ Store(ConnOutcomes)
    \/ Verify(ConnOutcomes)
    \/ Tick

SpecSeq == Init /\ [][SeqNext]_vars

\* As SpecSeq, with the store available at every call.
FreshNext ==
    \/ InFlight = {} /\ Read({"ok"})
    \/ Store({"ok"})
    \/ Verify({"ok"})
    \/ Tick

SpecFresh == Init /\ [][FreshNext]_vars

\* Overlapping calls, the store available at every call, rows never edited.
ConcNext ==
    \/ Read({"ok"})
    \/ Store({"ok"})
    \/ Verify({"ok"})
    \/ Tick

SpecConc == Init /\ [][ConcNext]_vars

\* As SpecFresh, with direct edits of the stored rows.
EditNext ==
    \/ InFlight = {} /\ Read({"ok"})
    \/ Store({"ok"})
    \/ Verify({"ok"})
    \/ Tamper
    \/ Tick

SpecEdit == Init /\ [][EditNext]_vars

\* As SpecFresh, with verify losing its connection or not, and called again
\* directly after it came back.
Again(conns) == \E c \in conns : verify_again(c)

TwiceNext ==
    \/ InFlight = {} /\ Read({"ok"})
    \/ Store({"ok"})
    \/ Verify(ConnOutcomes)
    \/ Again(ConnOutcomes)
    \/ TickBetween
    \/ Tick

SpecTwice == Init /\ [][TwiceNext]_vars

\* ------------------------------------------- calculate_hash over dicts
\* A dict is the sequence of its <<key, value>> items in insertion order;
\* the value under "data" is a dict again.

\* the keys of a block and of a payload, as Python orders the strings
SortedKeys ==
    <<"data", "index", "nonce", "order_id", "previous_hash", "timestamp", "total_amount">>

KeyRank(key) == CHOOSE i \in 1..Len(SortedKeys) : SortedKeys[i] = key

\* json.dumps without sort_keys: the items as the dict holds them
SortItems_unsorted(d) == d

\* sort_keys=True: the items of d by ascending key
SortItems(d) ==
    LET place(i) == 1 + Cardinality({j \in 1..Len(d) : KeyRank(d[j][1]) < KeyRank(d[i][1])})
    IN  [q \in 1..Len(d) |-> d[CHOOSE i \in 1..Len(d) : place(i) = q]]

\* json.dumps(block, sort_keys=True, indent=2): the items in printed order,
\* the nested dict printed the same way
DictDumps(d) ==
    LET items == SortItems(d)
    IN  [q \in 1..Len(d) |->
            IF items[q][1] = "data" THEN <<"data", SortItems(items[q][2])>>
            ELSE items[q]]

\* the number a printed payload contributes, digit by digit of its text
PayloadTextCode(text) == text[1][2] * (MaxAmount + 1) + text[2][2]

\* the number a printed item contributes
ItemCode(item) ==
    IF item[1] = "data" THEN PayloadTextCode(item[2])
    ELSE IF item[1] = "previous_hash" THEN SeqNum(item[2])
    ELSE IF item[1] = "timestamp" THEN TsCode(item[2])
    ELSE item[2]

\* what the position of an item in the text weighs in the digest
PlaceWeight == <<37, 29, NonceStride, 3, 11>>

RECURSIVE TextMix(_, _)
TextMix(text, q) ==
    IF q = 0 THEN 224 ELSE TextMix(text, q - 1) + PlaceWeight[q] * ItemCode(text[q])

\* calculate_hash(block), block a dict
calculate_hash_of(d) ==
    HexDigest(1 + (TextMix(DictDumps(d), Len(d)) % (HashSpace - 1)))

\* the dict literal of lines 47-57, keys in the order written there
AsDict(b) ==
    <<<<"index", b.index>>, <<"timestamp", b.timestamp>>,
      <<"data", <<<<"order_id", b.data.order_id>>, <<"total_amount", b.data.total_amount>>>>>>,
      <<"previous_hash", b.previous_hash>>, <<"nonce", b.nonce>>>>

Get(d, key) == d[CHOOSE i \in 1..Len(d) : d[i][1] = key][2]

\* the content of a dict, whatever the order of its items
AsContent(d) ==
    Content(Get(d, "index"), Get(d, "timestamp"),
            [order_id |-> Get(Get(d, "data"), "order_id"),
             total_amount |-> Get(Get(d, "data"), "total_amount"),
             opaque |-> FALSE],
            Get(d, "previous_hash"), Get(d, "nonce"))

\* the orders n items can be inserted in
Orders(n) == {o \in [1..n -> 1..n] : \A i, j \in 1..n : i # j => o[i] # o[j]}

\* five keys to a block (lines 47-57), two to a payload
BlockOrders == Orders(Len(PlaceWeight))

PayloadOrders == Orders(Len(JsonDumps(GenesisData)))

\* the same items inserted in the order o, those of the payload in the order n
Reordered(d, o, n) ==
    [i \in 1..Len(d) |->
        IF d[o[i]][1] = "data"
        THEN <<"data", [j \in 1..Len(d[o[i]][2]) |-> d[o[i]][2][n[j]]]>>
        ELSE d[o[i]]]

\* block contents handed to calculate_hash: a first block of every order
HashedContents ==
    {Content(1, PyNowStr(MaxTick - 1, 0), data, ZeroHash, 0) :
        data \in {x \in OrderData : Serializable(x)}}

\* calculate_hash called on the dict
HashDict ==
    /\ block_dict # <<>>
    /\ digests = <<>>
    /\ digests' = <<[dict |-> block_dict, digest |-> calculate_hash_of(block_dict)]>>
    /\ UNCHANGED <<rows, written, chain, pc, self_, new_block, log, now, tz,
                   verifyOut, tampers, seen, block_dict>>
    /\ Apart

\* calculate_hash called on a dict of the same content built in another order
HashReordered(o, n) ==
    /\ Len(digests) = 1
    /\ LET d == Reordered(block_dict, o, n)
       IN  digests' = Append(digests, [dict |-> d, digest |-> calculate_hash_of(d)])
    /\ UNCHANGED <<rows, written, chain, pc, self_, new_block, log, now, tz,
                   verifyOut, tampers, seen, block_dict>>
    /\ Apart

\* calculate_hash alone: a block dict of any content and insertion order
InitHash ==
    /\ rows = <<>>
    /\ written = <<>>
    /\ tz = 0
    /\ now = 0
    /\ chain = [i \in Instances |-> <<>>]
    /\ pc = [p \in Procs |-> "idle"]
    /\ self_ = [p \in Procs |-> Shared]
    /\ new_block = [p \in Procs |-> NoBlock]
    /\ log = <<>>
    /\ verifyOut = NoVerify
    /\ tampers = 0
    /\ seen = <<>>
    /\ digests = <<>>
    /\ block_copy_ = [p \in Procs |-> NoBlock]
    /\ orders = [o \in 1..MaxOrder |-> "pending"]
    /\ wlock = "free"
    /\ route = [p \in Procs |-> NoRequest]
    /\ responses = <<>>
    /\ contract = NoContract
    /\ block_dict \in {Reordered(AsDict(b), o, n) :
                          b \in HashedContents, o \in BlockOrders, n \in PayloadOrders}

HashNext ==
    \/ HashDict
    \/ \E o \in BlockOrders, n \in PayloadOrders : HashReordered(o, n)

SpecHash == InitHash /\ [][HashNext]_vars

\* ------------------------------------- add_order_to_blockchain, try by try
\* the tries a search may take before the model stops following it
MaxNonce == 32

\* the loop body without its last line: the nonce stays where it is
NextNonce_stuck(copy) == copy

\* block_copy['nonce'] += 1
NextNonce(copy) == [copy EXCEPT !.nonce = @ + 1]

\* Lines 45-58 and 76-77: the tip is read, the block built, mine_block
\* entered and the block copied.
AddOrderEnter(p, inst, order_data, c) ==
    /\ pc[p] = "idle"
    /\ Started < MaxCalls
    /\ self_' = [self_ EXCEPT ![p] = inst]
    /\ chain' = IF inst = Shared THEN chain
                ELSE [chain EXCEPT ![inst] = <<create_genesis_block(now, tz)>>]
    /\ IF c = "raise"
       THEN /\ log' = Append(log, Returned(p, order_data, NoBlock, 0))
            /\ UNCHANGED <<pc, block_copy_>>
       ELSE /\ block_copy_' = [block_copy_ EXCEPT ![p] = NewBlock(order_data, c)]
            /\ pc' = [pc EXCEPT ![p] = "mine"]
            /\ UNCHANGED log
    /\ verifyOut' = NoVerify
    /\ seen' = <<>>
    /\ UNCHANGED <<rows, written, new_block, now, tz, tampers, block_dict, digests>>
    /\ UNCHANGED <<orders, wlock, route, responses, contract>>

\* One turn of the while True of lines 79-83: hash the copy; return the hash
\* if it has the prefix (line 60 then puts it into new_block, whose nonce is
\* still 0), else add one to the copy's nonce.  A payload json cannot encode
\* makes calculate_hash raise, and line 70 returns None.
MineTry(p) ==
    /\ pc[p] = "mine"
    /\ LET copy == block_copy_[p]
           hash_result == calculate_hash(copy)
       IN  IF ~Serializable(copy.data)
           THEN /\ log' = Append(log, Returned(p, copy.data, NoBlock, 0))
                /\ pc' = [pc EXCEPT ![p] = "idle"]
                /\ block_copy_' = [block_copy_ EXCEPT ![p] = NoBlock]
                /\ UNCHANGED new_block
           ELSE IF HasPrefix(hash_result, Difficulty)
           THEN /\ new_block' = [new_block EXCEPT
                        ![p] = WithHash([copy EXCEPT !.nonce = 0], hash_result)]
                /\ pc' = [pc EXCEPT ![p] = "store"]
                /\ block_copy_' = [block_copy_ EXCEPT ![p] = NoBlock]
                /\ UNCHANGED log
           ELSE /\ copy.nonce < MaxNonce
                /\ block_copy_' = [block_copy_ EXCEPT ![p] = NextNonce(copy)]
                /\ UNCHANGED <<pc, new_block, log>>
    /\ verifyOut' = NoVerify
    /\ seen' = <<>>
    /\ UNCHANGED <<rows, written, chain, self_, now, tz, tampers, block_dict, digests>>
    /\ UNCHANGED <<orders, wlock, route, responses, contract>>

Enter(conns) ==
    \E p \in Procs, inst \in Instances, order_data \in OrderData, c \in conns :
        /\ inst \in {Shared, p}
        /\ AddOrderEnter(p, inst, order_data, c)

\* Calls of add_order_to_blockchain followed try by try, whatever the store
\* does; a thread inside a call keeps running.
MineNext ==
    \/ Enter(ConnOutcomes)
    \/ \E p \in Procs : MineTry(p)
    \/ Store(ConnOutcomes)
    \/ Verify(ConnOutcomes)

SpecMine ==
    /\ Init
    /\ [][MineNext]_vars
    /\ \A p \in Procs :
          /\ WF_vars(MineTry(p))
          /\ WF_vars(\E c \in ConnOutcomes : AddOrderStore(p, c))

\* ---------------------------------------------------------- complete_order
\* what the ledger's variables do in the steps the route takes by itself
Ledger ==
    UNCHANGED <<rows, written, chain, pc, self_, new_block, log, now, tz,
                verifyOut, tampers, seen, block_dict, digests, block_copy_, contract>>

\* jsonify({...}) of lines 107, 143-146, 157-161, 163-166 and 170
Response(p, order_id, success, message, block_hash) ==
    [thread |-> p, order_id |-> order_id, success |-> success,
     message |-> message, block_hash |-> block_hash]

Answer(p, response) ==
    /\ responses' = Append(responses, response)
    /\ route' = [route EXCEPT ![p] = [at |-> "done", order_id |-> response.order_id]]

\* blockchain_data of lines 122-137 and 149
BlockchainData(order_id) == [order_id |-> order_id, total_amount |-> 1, opaque |-> FALSE]

\* the calls of add_order_to_blockchain this thread has completed
CallsOf(p) == {i \in 1..Len(log) : log[i].thread = p}

\* blockchain_result of line 152
BlockchainResult(p) == log[CHOOSE i \in CallsOf(p) : \A j \in CallsOf(p) : j <= i].ret

\* Lines 91-119: the order is read and, if there is one, UPDATE orders
\* starts the write transaction of the route's connection, which lasts to
\* its commit, rollback or close.  While another connection has a write
\* open the UPDATE waits; past the busy timeout it raises 'database is
\* locked', and lines 168-170 roll back and answer.
CompleteOrderUpdate(p, order_id) ==
    /\ route[p].at = "idle"
    /\ IF order_id \notin DOMAIN orders
       THEN /\ Answer(p, Response(p, order_id, FALSE, "Order not found", <<>>))
            /\ UNCHANGED wlock
       ELSE IF wlock = "free"
       THEN /\ wlock' = p
            /\ route' = [route EXCEPT ![p] = [at |-> "updated", order_id |-> order_id]]
            /\ UNCHANGED responses
       ELSE /\ Answer(p, Response(p, order_id, FALSE, "Error", <<>>))
            /\ UNCHANGED wlock
    /\ UNCHANGED orders
    /\ Ledger

\* Lines 140-149: execute_order_contract succeeds, reports a failure or
\* raises; in the last two the connection is closed with its UPDATE
\* uncommitted.
CompleteOrderContracts(p, outcome) ==
    /\ route[p].at = "updated"
    /\ IF outcome = "success"
       THEN /\ route' = [route EXCEPT ![p].at = "ledger"]
            /\ UNCHANGED <<wlock, responses>>
       ELSE /\ wlock' = "free"
            /\ Answer(p, Response(p, route[p].order_id, FALSE,
                    IF outcome = "failure" THEN "Smart contract execution failed"
                    ELSE "Error", <<>>))
    /\ UNCHANGED orders
    /\ Ledger

\* what the INSERT of store_block_in_db, on a connection of its own, comes
\* to: with a write open on another connection it waits for the busy
\* timeout and raises 'database is locked'
InsertOutcome == IF wlock = "free" THEN "ok" ELSE "raise"

\* Line 152, up to the mined block: the module-level instance reads the tip
\* on a connection of its own (a read is not held up by an open write).
CompleteOrderAppend(p) ==
    /\ route[p].at = "ledger"
    /\ CallsOf(p) = {}
    /\ AddOrderRead(p, Shared, BlockchainData(route[p].order_id), "ok")

\* Line 152, from store_block_in_db on.
CompleteOrderInsert(p) ==
    /\ route[p].at = "ledger"
    /\ AddOrderStore(p, InsertOutcome)

\* Lines 154-166: commit, then the answer by blockchain_result.
CompleteOrderCommit(p) ==
    /\ route[p].at = "ledger"
    /\ pc[p] = "idle"
    /\ CallsOf(p) # {}
    /\ orders' = [orders EXCEPT ![route[p].order_id] = "delivered"]
    /\ wlock' = "free"
    /\ Answer(p, IF BlockchainResult(p).kind = "block"
                 THEN Response(p, route[p].order_id, TRUE,
                               "Order completed and added to blockchain",
                               BlockchainResult(p).hash)
                 ELSE Response(p, route[p].order_id, FALSE,
                               "Order completed but blockchain recording failed", <<>>))
    /\ Ledger

ContractOutcomes == {"success", "failure", "raise"}

\* Requests to /complete/<order_id> on two threads, for orders there are
\* and one there is not, the database reachable.
RouteNext ==
    \/ \E p \in Procs, order_id \in 1..(MaxOrder + 1) : CompleteOrderUpdate(p, order_id)
    \/ \E p \in Procs, outcome \in ContractOutcomes : CompleteOrderContracts(p, outcome)
    \/ \E p \in Procs : CompleteOrderAppend(p)
    \/ \E p \in Procs : CompleteOrderInsert(p)
    \/ \E p \in Procs : CompleteOrderCommit(p)

SpecRoute == Init /\ [][RouteNext]_vars

\* -------------------------------------------------- execute_order_contract
\* the items of an order: price and quantity of each
ItemLists ==
    {<<>>,
     <<[price |-> 1, quantity |-> 1]>>,
     <<[price |-> 1, quantity |-> 2]>>,
     <<[price |-> 1, quantity |-> 1], [price |-> 1, quantity |-> 1]>>}

PaymentMethods == {"card", "mpesa", "cash", "crypto"}

\* order_data as a caller may hand it over; 0 stands for a missing id
ContractOrders ==
    [order_id : 0..1, customer_id : 0..1, restaurant_id : 0..1,
     total_amount : 0..MaxAmount, items : ItemLists, payment_method : PaymentMethods]

RECURSIVE ItemsTotal(_)
\* sum(item.get('price', 0) * item.get('quantity', 0) for item in self.items)
ItemsTotal(items) ==
    IF items = <<>> THEN 0
    ELSE Head(items).price * Head(items).quantity + ItemsTotal(Tail(items))

\* OrderSmartContract.validate_order
validate_order(order_data) ==
    IF order_data.order_id = 0 THEN <<FALSE, "Order ID is required">>
    ELSE IF order_data.customer_id = 0 THEN <<FALSE, "Customer ID is required">>
    ELSE IF order_data.restaurant_id = 0 THEN <<FALSE, "Restaurant ID is required">>
    ELSE IF order_data.total_amount <= 0 THEN <<FALSE, "Order total must be greater than 0">>
    ELSE IF order_data.items = <<>> THEN <<FALSE, "Order must contain at least one item">>
    ELSE IF ItemsTotal(order_data.items) # order_data.total_amount
         THEN <<FALSE, "Order total mismatch">>
    ELSE <<TRUE, "Order validated successfully">>

Raised(error) == [kind |-> "raised", error |-> error]

\* PaymentSmartContract.verify_payment: the pair it returns, or what it
\* raises.  Line 137 formats the name payment_method, which is bound
\* neither in the method nor in the module.
verify_payment(amount, payment_method) ==
    IF amount <= 0
    THEN [kind |-> "returned", ok |-> FALSE,
          message |-> "Payment amount must be greater than 0"]
    ELSE IF payment_method \notin {"card", "mpesa", "cash"}
    THEN Raised("NameError")
    ELSE [kind |-> "returned", ok |-> TRUE, message |-> "Payment verified"]

\* a return of execute_order_contract: (success, result, message), the
\* result dict by its keys
Tuple(success, result, message) ==
    [kind |-> "returned", success |-> success, result |-> result, message |-> message]

\* SmartContractExecutor.execute_order_contract.  eth: Ethereum is not in
\* use, or create_order_on_blockchain gave an order id ("order"), or it gave
\* none or raised ("none") and the local contracts run.  For a payment that
\* was verified execute_settlement and update_delivery_status('pending')
\* succeed.
execute_order_contract(order_data, eth) ==
    IF eth = "order"
    THEN Tuple(TRUE, {"ethereum_order_id", "blockchain", "contract_address",
                      "network", "timestamp"},
               "Order created on Ethereum blockchain")
    ELSE IF ~validate_order(order_data)[1]
    THEN Tuple(FALSE, {}, validate_order(order_data)[2])
    ELSE LET payment == verify_payment(order_data.total_amount, order_data.payment_method)
         IN  IF payment.kind = "raised" THEN payment
             ELSE IF ~payment.ok
             THEN Tuple(FALSE, {}, "Payment validation failed")
             ELSE Tuple(TRUE, {"order_contract", "payment_contract", "delivery_contract",
                               "contract_hash", "blockchain", "execution_timestamp"},
                        "All smart contracts executed successfully")

\* a call of execute_order_contract
ExecuteOrderContract ==
    /\ contract.out.kind = "none"
    /\ contract' = [contract EXCEPT
            !.out = execute_order_contract(contract.order_data, contract.eth)]
    /\ UNCHANGED <<rows, written, chain, pc, self_, new_block, log, now, tz,
                   verifyOut, tampers, seen, block_dict, digests, block_copy_,
                   orders, wlock, route, responses>>

\* execute_order_contract alone, on any order
InitContract ==
    /\ rows = <<>>
    /\ written = <<>>
    /\ tz = 0
    /\ now = 0
    /\ chain = [i \in Instances |-> <<>>]
    /\ pc = [p \in Procs |-> "idle"]
    /\ self_ = [p \in Procs |-> Shared]
    /\ new_block = [p \in Procs |-> NoBlock]
    /\ log = <<>>
    /\ verifyOut = NoVerify
    /\ tampers = 0
    /\ seen = <<>>
    /\ block_dict = <<>>
    /\ digests = <<>>
    /\ block_copy_ = [p \in Procs |-> NoBlock]
    /\ orders = [o \in 1..MaxOrder |-> "pending"]
    /\ wlock = "free"
    /\ route = [p \in Procs |-> NoRequest]
    /\ responses = <<>>
    /\ contract \in [order_data : ContractOrders,
                      eth : {"unavailable", "order", "none"},
                      out : {[kind |-> "none"]}]

SpecContract == InitContract /\ [][ExecuteOrderContract]_vars

\* ----------------------------------------------------------------- claims
\* rows whose stored content differs from what store_block_in_db inserted
Edited == {k \in 1..Len(rows) : rows[k] # written[k]}

\* the completed calls that returned a block
ReturnedBlocks == {i \in 1..Len(log) : log[i].ret.kind = "block"}

\* the digest the k-th row has to link to
Predecessor(k) == IF k = 1 THEN ZeroHash ELSE rows[k - 1].current_hash

\* C1: after N >= 1 non-overlapping appends with the store available and no
\* row edited, verify returns valid = true and marks no block TAMPERED.
C1_FreshChainVerifies ==
    (verifyOut.kind = "scanned" /\ rows # <<>>) =>
        /\ verifyOut.valid
        /\ \A k \in 1..Len(rows) : verifyOut.report[k].status = "VALID"

\* C2: after non-overlapping appends on an unedited store every row's
\* previous_hash is the current_hash of the row before it, and the first
\* row's previous_hash is the genesis digest.
C2_ChainLinked ==
    \A k \in 1..Len(rows) : rows[k].previous_hash = Predecessor(k)

\* C3: when call A and the next call B both return a block and B's row
\* directly follows A's row, B.previous_hash = A.hash.
C3_AppendOrdering ==
    \A i \in 1..(Len(log) - 1) :
        (/\ i \in ReturnedBlocks
         /\ (i + 1) \in ReturnedBlocks
         /\ log[i].row # 0
         /\ log[i + 1].row = log[i].row + 1)
        => log[i + 1].ret.previous_hash = log[i].ret.hash

\* C4: under every interleaving of concurrent appends no two rows carry the
\* same previous_hash.
C4_AppendsSerialized ==
    \A i, j \in 1..Len(rows) :
        i # j => rows[i].previous_hash # rows[j].previous_hash

\* C5: rehashing the {index, timestamp, data, previous_hash, nonce} of a
\* returned block reproduces its hash.
C5_ReturnedBlockRehashes ==
    \A i \in ReturnedBlocks : calculate_hash(Hashed(log[i].ret)) = log[i].ret.hash

\* C6: the hash of every mined block, as returned and as inserted, starts
\* with Difficulty zero digits.
C6_ProofOfWork ==
    /\ \A p \in InFlight : HasPrefix(new_block[p].hash, Difficulty)
    /\ \A i \in ReturnedBlocks : HasPrefix(log[i].ret.hash, Difficulty)
    /\ \A k \in 1..Len(written) : HasPrefix(written[k].current_hash, Difficulty)

\* C6 witness: a returned and inserted block whose mining went past nonce 0.
C6_Witness ==
    \E i \in ReturnedBlocks :
        /\ log[i].row # 0
        /\ written[log[i].row].current_hash = log[i].ret.hash
        /\ WinningNonce(Hashed(log[i].ret), Difficulty) > 0

\* the one edit changed block_data (to another JSON text) or timestamp only
ContentEdit(k) ==
    /\ rows[k].previous_hash = written[k].previous_hash
    /\ JsonParses(rows[k].block_data)

\* C7: with exactly one row's payload or timestamp edited, verify marks that
\* row TAMPERED for a hash mismatch alone and every other row VALID.
C7_IsolatedContentTamper ==
    (/\ verifyOut.kind = "scanned"
     /\ Cardinality(Edited) = 1
     /\ \A k \in Edited : ContentEdit(k))
    => \A k \in 1..Len(rows) :
          IF k \in Edited
          THEN /\ verifyOut.report[k].status = "TAMPERED"
               /\ verifyOut.report[k].issues = <<"Hash mismatch">>
          ELSE verifyOut.report[k].status = "VALID"

InSeq(x, s) == \E i \in 1..Len(s) : s[i] = x

\* C8: a row whose stored previous_hash differs from the stored current_hash
\* of the row before it (the genesis digest for the first row) is marked
\* TAMPERED with a previous-hash mismatch, and verify returns valid = false.
C8_LinkTamperFlagged ==
    verifyOut.kind = "scanned" =>
        \A k \in 1..Len(rows) :
            rows[k].previous_hash # Predecessor(k) =>
                /\ verifyOut.report[k].status = "TAMPERED"
                /\ InSeq("Previous hash mismatch", verifyOut.report[k].issues)
                /\ ~verifyOut.valid

\* C8 witness: verify has scanned a store in which the previous_hash of a
\* row with a predecessor was edited away from that predecessor's hash.
C8_Witness ==
    /\ verifyOut.kind = "scanned"
    /\ \E k \in 2..Len(rows) :
          /\ rows[k].previous_hash # written[k].previous_hash
          /\ rows[k].previous_hash # rows[k - 1].current_hash
          /\ written[k].previous_hash = rows[k - 1].current_hash

\* C9: every block add_order_to_blockchain returns has a row, inserted with
\* the same current_hash.
C9_AppendFailsClosed ==
    \A i \in ReturnedBlocks :
        /\ log[i].row # 0
        /\ written[log[i].row].current_hash = log[i].ret.hash

\* C10: verify_blockchain_integrity never raises: whatever the store does
\* it returns a pair.
C10_VerifyNeverRaises == verifyOut.kind # "raised"

\* C11: every scan builds one report entry per stored row, in ascending id
\* order, whatever the rows before it hold, and that per-block report is
\* part of the value verify returns to its caller.
C11_ReportReturned ==
    (verifyOut.kind = "scanned" /\ rows # <<>>) =>
        /\ Len(verifyOut.report) = Len(rows)
        /\ \A k \in 1..Len(rows) :
              /\ verifyOut.report[k].block_id = rows[k].id
              /\ verifyOut.report[k].order_id = rows[k].order_id
              /\ k > 1 => verifyOut.report[k - 1].block_id < verifyOut.report[k].block_id
        /\ "per_block" \in DOMAIN VerifyReturn(verifyOut)
        /\ VerifyReturn(verifyOut).per_block = verifyOut.report

\* the rows the scan of the last verify call marked TAMPERED
Marked == {k \in 1..Len(verifyOut.report) : verifyOut.report[k].status = "TAMPERED"}

\* C12 as stated: every verify that returns gives valid = true exactly when
\* no block was marked TAMPERED, and otherwise a message carrying the number
\* of blocks marked.
C12_ValidIffNoneTampered ==
    verifyOut.kind \in {"scanned", "returned"} =>
        /\ verifyOut.valid <=> Marked = {}
        /\ ~verifyOut.valid =>
              /\ Len(verifyOut.message) = 2
              /\ verifyOut.message[2] = Cardinality(Marked)

\* C12 amended: a verify that read the table returns valid = true exactly
\* when no block was marked TAMPERED and otherwise false with the number of
\* blocks marked (a block with two issues counts once); a verify that got no
\* connection returns false with "Database connection failed", no block
\* marked and no number.
C12_CountsTamperedBlocks ==
    /\ verifyOut.kind = "scanned" =>
          /\ verifyOut.valid <=> Marked = {}
          /\ verifyOut.valid =>
                verifyOut.message = <<"Blockchain integrity verified successfully.">>
          /\ ~verifyOut.valid =>
                verifyOut.message = <<"Blockchain integrity compromised.", Cardinality(Marked)>>
    /\ verifyOut.kind = "returned" =>
          /\ ~verifyOut.valid
          /\ Marked = {}
          /\ verifyOut.message = <<"Database connection failed">>

\* C12 witness: a scan that marked a block failing both the link check and
\* the hash check, next to a block marked for one issue.
C12_Witness ==
    /\ verifyOut.kind = "scanned"
    /\ \E k \in Marked : Len(verifyOut.report[k].issues) = 2
    /\ Cardinality(Marked) = 2

\* C13 as stated: two verify calls in a row with no write to the table in
\* between come to identical results.
C13_VerifyTwiceIdentical ==
    Len(seen) = 2 => seen[1] = seen[2]

\* C13 amended: two verify calls in a row with no write in between, to which
\* the store answers alike (both read the table, or both get no connection),
\* come to identical results: validity, message, per-block statuses and
\* issues.
C13_VerifyTwiceAlike ==
    (Len(seen) = 2 /\ seen[1].kind = seen[2].kind) => seen[1] = seen[2]

\* C13 witness: both calls scanned a two-row table holding a VALID and a
\* TAMPERED block, the second call later than the first.
C13_Witness ==
    /\ Len(seen) = 2
    /\ seen[1].kind = "scanned"
    /\ seen[2].kind = "scanned"
    /\ now > 0
    /\ \E j, k \in 1..Len(rows) :
          /\ seen[2].report[j].status = "VALID"
          /\ seen[2].report[k].status = "TAMPERED"

\* the completed calls whose insert went through
Inserting == {i \in 1..Len(log) : log[i].row # 0}

\* C14: every append that returned a block added exactly one row of its
\* own, and every append that returned failure added none.
C14_OneRowPerReturnedBlock ==
    /\ \A i \in 1..Len(log) : (i \in ReturnedBlocks) <=> (i \in Inserting)
    /\ \A i, j \in Inserting : i # j => log[i].row # log[j].row
    /\ InFlight = {} => Len(written) = Cardinality(ReturnedBlocks)

\* C15: no operation of the ledger (constructing a controller, reading the
\* tip, appending, verifying) changes or removes a row already stored: only
\* a direct edit of the table does.
C15_RowsImmutable ==
    [][tampers' = tampers =>
          /\ Len(rows') >= Len(rows)
          /\ \A k \in 1..Len(rows) : rows'[k] = rows[k]]_vars

\* C15 witness: two appends were stored and a verify scanned them, the
\* second append for the order of the first, both rows as inserted.
C15_Witness ==
    /\ verifyOut.kind = "scanned"
    /\ Len(rows) = 2
    /\ rows[1].order_id = rows[2].order_id
    /\ rows = written
    /\ tampers = 0

\* the call the step completed, when it completed one
Completed == log'[Len(log')]

\* C16: an append whose payload json cannot encode returns no block, and
\* the step that returns leaves the table and the chain of its controller
\* as they were (a controller made for the call holds its genesis block).
C16_UnencodableFailsClean ==
    [][(Len(log') = Len(log) + 1 /\ Completed.order_data.opaque) =>
          /\ Completed.ret = NoBlock
          /\ Completed.row = 0
          /\ rows' = rows
          /\ chain'[Shared] = chain[Shared]
          /\ \A p \in Procs :
                chain'[p] \in {chain[p], <<create_genesis_block(now, tz)>>}]_vars

\* C16 witness: with a row stored, a call with an unencodable payload has
\* returned, and the table holds that one row, as inserted.
C16_Witness ==
    /\ Len(log) = 2
    /\ log[1].row = 1
    /\ log[2].order_data.opaque
    /\ log[2].ret = NoBlock
    /\ rows = written
    /\ Len(rows) = 1
    /\ Len(chain[Shared]) = 2

\* C17: a verify that reads a table holding no row returns valid = true,
\* with the message of a verified chain.
C17_EmptyStoreVerifies ==
    (verifyOut.kind = "scanned" /\ rows = <<>>) =>
        /\ verifyOut.valid
        /\ verifyOut.message = <<"Blockchain integrity verified successfully.">>
        /\ verifyOut.report = <<>>

\* C17 witness: verify read an empty table after an append had come back
\* without storing a row.
C17_Witness ==
    /\ verifyOut.kind = "scanned"
    /\ rows = <<>>
    /\ written = <<>>
    /\ log # <<>>

\* C18: calculate_hash called on two dicts of the same content gives the
\* same digest whatever the order their keys were inserted in, those of the
\* nested payload included: the digest is that of the content.
C18_HashIgnoresKeyOrder ==
    \A i \in 1..Len(digests) :
        /\ digests[i].digest = digests[1].digest
        /\ digests[i].digest = calculate_hash(AsContent(digests[i].dict))

\* C18 witness: two dicts were hashed, the second with other keys first at
\* both levels than the first, neither in sorted order.
C18_Witness ==
    /\ Len(digests) = 2
    /\ digests[1].dict[1][1] = "timestamp"
    /\ digests[2].dict[1][1] = "nonce"
    /\ Get(digests[1].dict, "data")[1][1] = "total_amount"
    /\ Get(digests[2].dict, "data")[1][1] = "order_id"
    /\ AsContent(digests[1].dict) = AsContent(digests[2].dict)

\* C19: a verify call writes nothing, and one made while appends are in
\* flight scans exactly the rows committed so far, each whole as inserted
\* (the chain before or after each append, no block of an append in flight),
\* and returns what those rows come to.
C19_VerifyReadsCommittedRows ==
    [][verifyOut'.kind = "scanned" =>
          /\ UNCHANGED <<rows, written, chain, pc, self_, new_block, log>>
          /\ rows = written
          /\ Len(verifyOut'.report) = Len(rows)
          /\ \A k \in 1..Len(rows) :
                /\ verifyOut'.report[k].block_id = rows[k].id
                /\ verifyOut'.report[k].issues = Issues(rows, k)
          /\ verifyOut'.valid <=> \A k \in 1..Len(rows) : Issues(rows, k) = <<>>]_vars

\* C19 witness: verify scanned the one committed row while another append
\* had mined its block and not yet inserted it.
C19_Witness ==
    /\ verifyOut.kind = "scanned"
    /\ Len(rows) = 1
    /\ Len(verifyOut.report) = 1
    /\ \E p \in Procs : pc[p] = "store" /\ new_block[p].kind = "block"

\* the timestamp verify puts into test_block for the k-th row
VerifiedTimestamp(k) == TestBlock(rows[k]).timestamp

\* C20: the timestamp verify uses when it recomputes the hash of a block is
\* the string that was hashed when the block was mined.
C20_TimestampFixedAtCreation ==
    \A i \in ReturnedBlocks :
        log[i].row # 0 => VerifiedTimestamp(log[i].row) = log[i].ret.timestamp

\* C21: for every persisted block, the nonce verify puts into the block it
\* rehashes is the nonce at which mining found that block's hash.
C21_VerifyUsesMinedNonce ==
    \A i \in ReturnedBlocks :
        log[i].row # 0 =>
            TestBlock(rows[log[i].row]).nonce
                = WinningNonce(Hashed(log[i].ret), Difficulty)

\* C22: in every scan the k-th block gets a link-mismatch issue exactly when
\* its stored previous_hash differs from the stored current_hash of block
\* k-1 (the genesis digest for the first), whether or not block k-1 was
\* itself marked TAMPERED.
C22_LinkAgainstStoredHash ==
    verifyOut.kind = "scanned" =>
        \A k \in 1..Len(rows) :
            InSeq("Previous hash mismatch", verifyOut.report[k].issues)
                <=> rows[k].previous_hash # Predecessor(k)

\* C22 witness: a scan in which the first block is marked for a link
\* mismatch and does not rehash to its stored hash, and the second block,
\* linking to that stored hash, gets no link issue.
C22_Witness ==
    /\ verifyOut.kind = "scanned"
    /\ Len(rows) = 2
    /\ rows[1].previous_hash # ZeroHash
    /\ InSeq("Previous hash mismatch", verifyOut.report[1].issues)
    /\ InSeq("Hash mismatch", verifyOut.report[1].issues)
    /\ rows[2].previous_hash = rows[1].current_hash
    /\ ~InSeq("Previous hash mismatch", verifyOut.report[2].issues)

\* the rows whose stored block_data json.loads rejects
Unparseable == {k \in 1..Len(rows) : ~JsonParses(rows[k].block_data)}

\* C23: a scan marks every block whose stored payload does not parse
\* TAMPERED with the parsing-error issue and goes on: every row has its
\* entry, and the block after an unparseable one gets a link issue exactly
\* when its previous_hash differs from the unparseable block's stored
\* current_hash.
C23_UnparseableMarkedScanGoesOn ==
    verifyOut.kind = "scanned" =>
        /\ Len(verifyOut.report) = Len(rows)
        /\ \A k \in Unparseable :
              /\ verifyOut.report[k].status = "TAMPERED"
              /\ InSeq("Block data parsing error", verifyOut.report[k].issues)
              /\ ~InSeq("Hash mismatch", verifyOut.report[k].issues)
              /\ k < Len(rows) =>
                    (InSeq("Previous hash mismatch", verifyOut.report[k + 1].issues)
                        <=> rows[k + 1].previous_hash # rows[k].current_hash)

\* C23 witness: a scan of two rows of which the first holds no JSON and the
\* second links to the first's stored hash.
C23_Witness ==
    /\ verifyOut.kind = "scanned"
    /\ Len(rows) = 2
    /\ 1 \in Unparseable
    /\ rows[2].previous_hash = rows[1].current_hash
    /\ Len(verifyOut.report) = 2
    /\ ~InSeq("Previous hash mismatch", verifyOut.report[2].issues)

\* the current_hash of the last stored row, or the genesis digest when the
\* table is empty
StoreTip == IF rows = <<>> THEN ZeroHash ELSE get_latest_block.current_hash

\* C24: the previous_hash of a block under construction is the tip of the
\* store as it was when the call was made, whichever instance the call goes
\* through and whatever that instance's in-memory chain holds.
C24_TipReadFromStore ==
    \A p \in InFlight : new_block[p].previous_hash = StoreTip

\* C25: for every persisted block, the index hashed when it was mined is the
\* id of its row, which is the index verify rehashes it with.
C25_MinedIndexIsRowId ==
    \A i \in ReturnedBlocks :
        log[i].row # 0 =>
            /\ log[i].ret.index = rows[log[i].row].id
            /\ log[i].ret.index = TestBlock(rows[log[i].row]).index

\* C26: every call of add_order_to_blockchain returns: its search stops at
\* the first nonce whose hash has the prefix, with the hash mine_block gives,
\* and the call then runs to its end.
C26_EveryCallReturns ==
    /\ [](\A p \in Procs : pc[p] = "store" =>
            new_block[p].hash = mine_block(Hashed(new_block[p]), Difficulty))
    /\ \A p \in Procs : (pc[p] # "idle") ~> (pc[p] = "idle")

\* C26 witness: a call whose search went past nonce 0 has returned its
\* block and stored it.
C26_Witness ==
    \E i \in ReturnedBlocks :
        /\ log[i].row # 0
        /\ WinningNonce(Hashed(log[i].ret), Difficulty) > 1

\* the instances that have been constructed
Constructed == {inst \in Instances : chain[inst] # <<>>}

\* C27: every constructed instance has exactly one genesis block, at the
\* head of its in-memory chain: index 0, previous_hash of zeros, nonce 0,
\* hash by calculate_hash.  Constructing an instance writes no row, and no
\* row is ever a genesis row: each was inserted for a block of index >= 1
\* that an append returned.
C27_GenesisInMemoryOnly ==
    /\ [](\A inst \in Constructed :
            LET genesis_block == chain[inst][1]
            IN  /\ genesis_block.index = 0
                /\ genesis_block.data = GenesisData
                /\ genesis_block.previous_hash = ZeroHash
                /\ genesis_block.nonce = 0
                /\ genesis_block.hash = calculate_hash(Hashed(genesis_block))
                /\ \A j \in 2..Len(chain[inst]) : chain[inst][j].index >= 1)
    /\ [](\A k \in 1..Len(rows) :
            /\ written[k].id >= 1
            /\ written[k].order_id # GenesisData.order_id
            /\ written[k].block_data # JsonDumps(GenesisData)
            /\ \E i \in ReturnedBlocks : log[i].row = k /\ log[i].ret.index >= 1)
    /\ [][\A inst \in Instances :
            (chain[inst] = <<>> /\ chain'[inst] # <<>>) => rows' = rows]_vars

\* C27 witness: an instance constructed for one call holds its genesis
\* block followed by the block that call stored.
C27_Witness ==
    \E p \in Procs :
        /\ Len(chain[p]) = 2
        /\ chain[p][1].index = 0
        /\ \E k \in 1..Len(rows) : rows[k].current_hash = chain[p][2].hash

\* the answers complete_order gave after its commit of line 154
Committed ==
    {i \in 1..Len(responses) :
        responses[i].message \in {"Order completed and added to blockchain",
                                  "Order completed but blockchain recording failed"}}

\* C28: when complete_order is called for an existing order, its contracts
\* succeed and the database is reachable, the ledger insert goes through
\* while the route's UPDATE is uncommitted: the answer is success and
\* carries the hash of a stored block of that order.
C28_CompleteOrderRecordsBlock ==
    \A i \in Committed :
        /\ responses[i].success
        /\ \E k \in 1..Len(rows) :
              /\ rows[k].order_id = responses[i].order_id
              /\ rows[k].current_hash = responses[i].block_hash

\* the stored blocks of an order
BlocksOf(order_id) == {k \in 1..Len(rows) : rows[k].order_id = order_id}

\* C29: after any sequence of complete_order calls, repeated ones for the
\* same order included, every order a call completed has exactly one block
\* in the store, and no order has more than one.
C29_OneBlockPerCompletedOrder ==
    /\ \A i \in Committed : Cardinality(BlocksOf(responses[i].order_id)) = 1
    /\ \A o \in DOMAIN orders : Cardinality(BlocksOf(o)) <= 1

\* C30: every call of execute_order_contract returns a triple, with an
\* empty result dict whenever success is false; for an order that passes
\* validation and whose payment method is none of card, mpesa and cash the
\* triple is (False, {}, payment-validation message).
C30_ContractFailuresAreValues ==
    contract.out.kind # "none" =>
        /\ contract.out.kind = "returned"
        /\ ~contract.out.success => contract.out.result = {}
        /\ (/\ contract.eth # "order"
            /\ validate_order(contract.order_data)[1]
            /\ contract.order_data.payment_method \notin {"card", "mpesa", "cash"})
           => /\ ~contract.out.success
              /\ contract.out.message = "Payment validation failed"
====
